---- MODULE Spec2Model ----
(***************************************************************************)
(* Model of src/js/slider.js: the Slider component.  One shared state      *)
(* object, document-level click / touchstart / touchmove / touchend /      *)
(* keydown handlers, and the DOM the handlers read and write (each slider  *)
(* list's style.left and its "swiping" class).                             *)
(*                                                                         *)
(* Numbers.  style.left is the string `${n}%`; it is modelled by the       *)
(* number n, and an optional value is a sequence of length 0 (absent:      *)
(* '' for style.left, undefined for state.start / state.width, NaN for a   *)
(* computed percentage) or 1.  Container widths are 50px and 100px so that *)
(* swipingDistance / width * 100 is an integer for every integer distance. *)
(* A container of width 0 (a hidden slider) is not modelled.               *)
(***************************************************************************)
EXTENDS Integers, Sequences, FiniteSets, TLC

VARIABLES state, dom, last, clean, origin

vars == <<state, dom, last, clean, origin>>

(* ------------------------------ bounds -------------------------------- *)

\* Largest child count of the first slider list (its count is 0..MaxLen).
MaxLen == 4

(* ------------------------- optional values ---------------------------- *)

None == <<>>

Some(n) == <<n>>

IsSome(o) == Len(o) = 1

Val(o) == o[1]

Abs(n) == IF n < 0 THEN -n ELSE n

Min(a, b) == IF a < b THEN a ELSE b

Max(a, b) == IF a > b THEN a ELSE b

(* ------------------------------ the page ------------------------------ *)

\* Elements matching config.sliderContainer ('.slider').  0 is null.
Containers == {1, 2}

\* sliderContainer.querySelector(config.slider): the list, named by its
\* container, or null (0) when the container holds no such element.
QuerySlider(d, c) == IF d[c].present THEN c ELSE 0

\* sliderContainer.getBoundingClientRect().width, in px.
BoundingWidth(c) == IF c = 1 THEN 50 ELSE 100

\* Screen X positions of a touch point, in px.
ScreenXs == {0, 10, 30}

\* e.touches.length
TouchCounts == {1, 2}

Keys == {"ArrowLeft", "ArrowRight", "Enter"}

\* How an element matches `[data-slider]` / `[data-slider] *`.
AttrKinds == {"none", "self", "desc"}

\* Event targets: the closest container (0: none), whether the element
\* matches `[data-slider-prev], [data-slider-prev] *`, the same for next,
\* and how it matches the slider attribute.  The page has prev and next
\* controls in each container, a next control outside any container, one
\* control nested in both a prev and a next control, attributed elements and
\* their descendants, and an element that matches nothing.
Elements ==
  { el \in [container : {0} \cup Containers, prev : BOOLEAN, next : BOOLEAN,
            attr : AttrKinds, null : {FALSE}] :
      \/ (el.prev \/ el.next) /\ el.attr = "none"
            /\ (el.prev /\ el.next => el.container = 1)
            /\ (el.container = 0 => el.next)
      \/ ~el.prev /\ ~el.next /\ el.attr = "desc"
      \/ ~el.prev /\ ~el.next /\ el.attr = "self" /\ el.container = 1
      \/ ~el.prev /\ ~el.next /\ el.attr = "none" /\ el.container = 0 }

\* The null reference, and a container element itself.
NullElement ==
  [container |-> 0, prev |-> FALSE, next |-> FALSE, attr |-> "none", null |-> TRUE]

ContainerElement(c) ==
  [container |-> c, prev |-> FALSE, next |-> FALSE, attr |-> "none", null |-> FALSE]

\* el.closest(config.sliderContainer)
Closest(el) == el.container

(* --------------------------- configuration ---------------------------- *)

\* config.threshold
threshold == 20

(* ------------------------------ helpers ------------------------------- *)

\* A parse that keeps the sign.
ParseLeft_Signed(left) == IF IsSome(left) THEN Val(left) ELSE 0

\* left.replace(/[%-]/g, '') then parseInt: every '-' is dropped, so the
\* sign is lost; style.left '' reads as '0%'.  The percentages of the model
\* are integers, so parseInt has no fraction to cut.
ParseLeft(left) == IF IsSome(left) THEN Abs(Val(left)) ELSE 0

\* Math.round(n / 100): round half up.
RoundHundredth(n) == (n + 50) \div 100

\* getSlideIndex() on a list whose style.left is `left`.
getSlideIndex(left) == RoundHundredth(ParseLeft(left))

\* swipingDistancePercentage(): NaN (None) while state.width is undefined.
swipingDistancePercentage(s) ==
  IF IsSome(s.width) THEN Some((s.swipingDistance * 100) \div Val(s.width))
  ELSE None

\* A clamp that forgets the upper end.
ClampIndex_NoUpper(index, length) == IF index < 0 THEN 0 ELSE index

\* The index clamp of setState.
ClampIndex(index, length) ==
  IF index < 0 THEN 0
  ELSE IF index >= length THEN length - 1
  ELSE index

\* A render that calls onSlide before it looks for a slider.
setState_FireAlways(r) ==
  LET s == r.state
  IN  IF s.slider = 0
      THEN [r EXCEPT
              !.fires = Append(@, [index |-> s.index, length |-> s.length,
                                   slider |-> s.slider, left |-> None,
                                   pct |-> swipingDistancePercentage(s)])]
      ELSE LET index == ClampIndex(s.index, s.length)
               pct   == swipingDistancePercentage(s)
               left  == IF IsSome(pct) THEN Some(index * (-100) + Val(pct))
                        ELSE r.dom[s.slider].left
           IN  [r EXCEPT
                  !.state.index = index,
                  !.dom[s.slider].left = left,
                  !.dom[s.slider].swiping = s.swiping,
                  !.fires = Append(@, [index |-> index, length |-> s.length,
                                       slider |-> s.slider, left |-> left,
                                       pct |-> pct])]

\* A render that calls onSlide before it clamps the index.
setState_FireFirst(r) ==
  IF r.state.slider = 0 THEN r
  ELSE LET s     == r.state
           index == ClampIndex(s.index, s.length)
           pct   == swipingDistancePercentage(s)
           left  == IF IsSome(pct) THEN Some(index * (-100) + Val(pct))
                    ELSE r.dom[s.slider].left
       IN  [r EXCEPT
              !.state.index = index,
              !.dom[s.slider].left = left,
              !.dom[s.slider].swiping = s.swiping,
              !.fires = Append(@, [index |-> s.index, length |-> s.length,
                                   slider |-> s.slider, left |-> left,
                                   pct |-> pct])]

\* setState(): a run holds the state, the DOM and the onSlide calls made so
\* far in the handler (the index, length and slider of the state passed,
\* its swipe percentage and the left just written).  `NaN%` is not a valid
\* left and is not stored.
setState(r) ==
  IF r.state.slider = 0 THEN r
  ELSE LET s     == r.state
           index == ClampIndex(s.index, s.length)
           pct   == swipingDistancePercentage(s)
           left  == IF IsSome(pct) THEN Some(index * (-100) + Val(pct))
                    ELSE r.dom[s.slider].left
       IN  [r EXCEPT
              !.state.index = index,
              !.dom[s.slider].left = left,
              !.dom[s.slider].swiping = s.swiping,
              !.fires = Append(@, [index |-> index, length |-> s.length,
                                   slider |-> s.slider, left |-> left,
                                   pct |-> pct])]

\* loadState(el): the assignments made before a throw are kept.
loadState(r, el) ==
  IF el.null THEN [r EXCEPT !.err = "TypeError"]
  ELSE LET container == Closest(el)
           slider    == IF container = 0 THEN 0
                        ELSE QuerySlider(r.dom, container)
       IN  IF container = 0
           THEN [r EXCEPT !.state.sliderContainer = 0, !.err = "container"]
           ELSE IF slider = 0
           THEN [r EXCEPT !.state.sliderContainer = container,
                          !.state.slider = 0, !.err = "slider"]
           ELSE [r EXCEPT
                   !.state.sliderContainer = container,
                   !.state.slider = slider,
                   !.state.length = r.dom[slider].childElementCount,
                   !.state.index = getSlideIndex(r.dom[slider].left),
                   !.state.width = Some(BoundingWidth(container))]

\* A navigation that renders although the load failed.
navigate_NoAbort(r, el, forward) ==
  LET l == loadState(r, el)
  IN  setState([l EXCEPT !.state.index = IF forward THEN @ + 1 ELSE @ - 1])

\* navigate(el, forward)
navigate(r, el, forward) ==
  LET l == loadState(r, el)
  IN  IF l.err # "none" THEN l
      ELSE setState([l EXCEPT !.state.index = IF forward THEN @ + 1 ELSE @ - 1])

\* The run a handler starts from.
Begin ==
  [state |-> state, dom |-> dom, fires |-> <<>>, err |-> "none", ran |-> FALSE]

\* The run once the handler is past its early returns.
Handle == [Begin EXCEPT !.ran = TRUE]

\* A click handler that navigates the wrong way.
click_Swapped(el) ==
  LET prevClick == el.prev
      nextClick == ~prevClick /\ el.next
  IN  IF ~prevClick /\ ~nextClick THEN Begin
      ELSE navigate(Handle, el, prevClick)

\* click(e)
click(el) ==
  LET prevClick == el.prev
      nextClick == ~prevClick /\ el.next
  IN  IF ~prevClick /\ ~nextClick THEN Begin
      ELSE navigate(Handle, el, nextClick)

\* touchStart(e)
touchStart(el, n, x) ==
  IF n # 1 THEN Begin
  ELSE IF el.attr = "none" THEN Begin
  ELSE LET l == loadState(Handle, el)
       IN  IF l.err # "none" THEN l
           ELSE setState([l EXCEPT !.state.start = Some(x),
                                   !.state.swiping = TRUE])

\* A touch move that measures the distance the wrong way round.
touchMove_Reversed(n, x) ==
  IF n # 1 THEN Begin
  ELSE IF ~state.swiping THEN Begin
  ELSE setState([Handle EXCEPT
                   !.state.swipingDistance = Val(state.start) - x])

\* A touch move that follows a second finger.
touchMove_AnyTouches(n, x) ==
  IF ~state.swiping THEN Begin
  ELSE setState([Handle EXCEPT
                   !.state.swipingDistance = x - Val(state.start)])

\* touchMove(e)
touchMove(n, x) ==
  IF n # 1 THEN Begin
  ELSE IF ~state.swiping THEN Begin
  ELSE setState([Handle EXCEPT
                   !.state.swipingDistance = x - Val(state.start)])

\* A touch end that navigates on any swipe, however short.
SwipeDirection_NoThreshold(s) ==
  LET distance == swipingDistancePercentage(s)
  IN  IF ~IsSome(distance) THEN "none"
      ELSE IF Val(distance) < 0 THEN "forward"
      ELSE IF Val(distance) > 0 THEN "backward"
      ELSE "none"

\* The branch touchEnd takes: a comparison with NaN is false.
SwipeDirection(s) ==
  LET distance == swipingDistancePercentage(s)
  IN  IF ~IsSome(distance) THEN "none"
      ELSE IF Val(distance) <= threshold * (-1) THEN "forward"
      ELSE IF Val(distance) >= threshold THEN "backward"
      ELSE "none"

\* A touch end that forgets to reset the swipe distance.
touchEnd_KeepDistance ==
  LET dir == SwipeDirection(state)
      sc  == IF state.sliderContainer = 0 THEN NullElement
             ELSE ContainerElement(state.sliderContainer)
      n   == IF dir = "none" THEN Handle
             ELSE navigate(Handle, sc, dir = "forward")
  IN  IF n.err # "none" THEN n
      ELSE setState([n EXCEPT !.state.swiping = FALSE])

\* touchEnd(e)
touchEnd ==
  LET dir == SwipeDirection(state)
      sc  == IF state.sliderContainer = 0 THEN NullElement
             ELSE ContainerElement(state.sliderContainer)
      n   == IF dir = "none" THEN Handle
             ELSE navigate(Handle, sc, dir = "forward")
  IN  IF n.err # "none" THEN n
      ELSE setState([n EXCEPT !.state.swiping = FALSE,
                              !.state.swipingDistance = 0])

\* keydown(e)
keydown(el, key) ==
  IF el.attr # "desc" THEN Begin
  ELSE IF key = "ArrowLeft" \/ key = "ArrowRight"
       THEN navigate(Handle, el, key = "ArrowRight")
       ELSE Begin

(* --------------------------- history record --------------------------- *)

\* What the last handler was given and what it did.  An event the handler
\* returned from early is recorded by its type alone.  swipe is the
\* percentage a touch end read when it closed a clean gesture.
Record(op, el, key, r) ==
  [op |-> op, ran |-> r.ran,
   el |-> IF r.ran THEN el ELSE NullElement,
   key |-> IF r.ran THEN key ELSE "",
   err |-> r.err, fires |-> r.fires,
   swipe |-> IF op = "touchend" /\ clean
             THEN swipingDistancePercentage(state) ELSE None]

\* clean: a touch start has rendered and only touch moves (and events the
\* handlers returned from early) have followed it.
Clean(op, r) ==
  IF op = "touchstart" /\ r.fires # <<>> THEN TRUE
  ELSE IF op = "touchend" THEN FALSE
  ELSE IF r.ran /\ op # "touchmove" THEN FALSE
  ELSE clean

\* origin: the slider on which the touch gesture in progress started (0
\* when no touch start has rendered since the last touch end).
Origin(op, r) ==
  IF op = "touchstart" /\ r.fires # <<>> THEN r.state.slider
  ELSE IF op = "touchend" THEN 0
  ELSE origin

\* A handler's run becomes the next state.
Commit(op, el, key, r) ==
  /\ state' = r.state
  /\ dom' = r.dom
  /\ last' = Record(op, el, key, r)
  /\ clean' = Clean(op, r)
  /\ origin' = Origin(op, r)

(* ------------------------------ actions ------------------------------- *)

\* A page: the first container holds a list of c slides; the second holds
\* a list of two slides, or no list at all.
Page(c, two) ==
  [l \in Containers |->
     [left |-> None, swiping |-> FALSE,
      present |-> (l = 1 \/ two),
      childElementCount |-> IF l = 1 THEN c ELSE 2]]

\* One slider of 0..MaxLen slides, or two sliders of two slides each.
Pages == {Page(c, FALSE) : c \in 0..MaxLen} \cup {Page(2, TRUE)}

Init ==
  /\ state = [index |-> 0, length |-> 0, slider |-> 0, sliderContainer |-> 0,
              start |-> None, swiping |-> FALSE, swipingDistance |-> 0,
              width |-> None]
  /\ dom \in Pages
  /\ last = [op |-> "init", ran |-> FALSE, el |-> NullElement, key |-> "",
             err |-> "none", fires |-> <<>>, swipe |-> None]
  /\ clean = FALSE
  /\ origin = 0

Click == \E el \in Elements : Commit("click", el, "", click(el))

Keydown ==
  \E el \in Elements, key \in Keys : Commit("keydown", el, key, keydown(el, key))

TouchStart ==
  \E el \in Elements, n \in TouchCounts, x \in ScreenXs :
    Commit("touchstart", el, "", touchStart(el, n, x))

TouchMove ==
  \E n \in TouchCounts, x \in ScreenXs :
    Commit("touchmove", NullElement, "", touchMove(n, x))

TouchEnd == Commit("touchend", NullElement, "", touchEnd)

Next == Click \/ Keydown \/ TouchStart \/ TouchMove \/ TouchEnd

Spec == Init /\ [][Next]_vars

(* ------------------------------- claims ------------------------------- *)

\* The list of container c rests at index i: i is a valid index and the
\* list's left is -100*i % (a left never written reads as 0%).
AtRest(d, c, i) ==
  /\ d[c].present
  /\ 0 <= i /\ i < d[c].childElementCount
  /\ IF IsSome(d[c].left) THEN Val(d[c].left) = (-100) * i ELSE i = 0

\* One step forward or backward from index i in a list of length slides.
Step(i, length, forward) ==
  IF forward THEN Min(i + 1, length - 1) ELSE Max(i - 1, 0)

\* C1 as stated: whenever a slider is loaded, 0 <= index < length, for any
\* child count.
C1_IndexBoundsAnyLength ==
  state.slider # 0 => 0 <= state.index /\ state.index < state.length

\* C1, amended: whenever a slider with at least one slide is loaded and a
\* handler has returned, 0 <= index < length.
C1_IndexBounds ==
  state.slider # 0 /\ state.length >= 1
    => 0 <= state.index /\ state.index < state.length

\* C1 witness: a forward click has rendered the last slide of a slider of
\* two or more slides.
C1_Witness ==
  /\ last.op = "click" /\ last.ran /\ last.err = "none" /\ ~last.el.prev
  /\ state.slider # 0 /\ state.length >= 2
  /\ state.index = state.length - 1

\* C2: with no swipe in progress and the slider at rest at index i, a
\* click on a next control leaves it at min(i+1, length-1) and a click on a
\* prev control at max(i-1, 0), and the list's left is -100 * (new index) %.
\* A target that matches both selectors is a prev control (prevClick).
C2_ClickOneStep ==
  [][\A c \in Containers, i \in 0..MaxLen :
       ( /\ last'.op = "click" /\ last'.ran
         /\ Closest(last'.el) = c
         /\ ~state.swiping
         /\ AtRest(dom, c, i) )
       => LET j == Step(i, dom[c].childElementCount, ~last'.el.prev)
          IN  /\ last'.err = "none"
              /\ state'.slider = c
              /\ state'.index = j
              /\ dom'[c].left = Some((-100) * j)]_vars

\* C2 witness: the example of the specification; a prev click on a slider
\* of 4 slides has left it at index 1 with left -100%.
C2_Witness ==
  /\ last.op = "click" /\ last.ran /\ last.el.prev /\ last.err = "none"
  /\ ~state.swiping
  /\ state.length = 4 /\ state.index = 1
  /\ dom[state.slider].left = Some(-100)

\* A touch end closes a clean gesture (touch start, touch moves, touch end)
\* on a slider that the touch start left at the valid index state.index.
ClosesGesture ==
  /\ last'.op = "touchend" /\ IsSome(last'.swipe)
  /\ state.slider # 0
  /\ 0 <= state.index /\ state.index < state.length

\* C3 as stated: a gesture whose end percentage lies in the closed interval
\* [-threshold, +threshold] leaves the index at i and left at -100*i %.
C3_SnapBackClosed ==
  [][( /\ ClosesGesture
       /\ -threshold <= Val(last'.swipe) /\ Val(last'.swipe) <= threshold )
     => /\ state'.index = state.index
        /\ dom'[state.slider].left = Some((-100) * state.index)]_vars

\* C3, amended: a gesture on a slider at the valid index i whose end
\* percentage lies strictly between -threshold and +threshold leaves the
\* index at i and left at -100*i %, and clears the swiping class.
C3_SnapBack ==
  [][( /\ ClosesGesture
       /\ -threshold < Val(last'.swipe) /\ Val(last'.swipe) < threshold )
     => /\ last'.err = "none"
        /\ state'.slider = state.slider
        /\ state'.index = state.index
        /\ dom'[state.slider].left = Some((-100) * state.index)
        /\ ~dom'[state.slider].swiping]_vars

\* C3 witness: a touch end has closed a clean gesture with a non-zero swipe
\* below the threshold, on a slider away from index 0.
C3_Witness ==
  /\ last.op = "touchend" /\ IsSome(last.swipe)
  /\ Val(last.swipe) # 0 /\ Abs(Val(last.swipe)) < threshold
  /\ state.slider # 0 /\ state.index >= 1

\* C4: a gesture whose end percentage p has threshold < |p| <= 100 moves
\* the index by exactly one step: backward for p > 0, forward for p < 0.
C4_SwipeOneStep ==
  [][( /\ ClosesGesture
       /\ threshold < Abs(Val(last'.swipe))
       /\ Abs(Val(last'.swipe)) <= 100 )
     => state'.index =
          Step(state.index, state.length, Val(last'.swipe) < 0)]_vars

\* C5 as stated: every interaction that navigates or re-renders a loaded
\* slider calls onSlide exactly once, with the index and length written.
C5_OneFirePerInteraction ==
  [][(last'.ran /\ last'.err = "none" /\ state'.slider # 0)
     => /\ Len(last'.fires) = 1
        /\ last'.fires[1].index = state'.index
        /\ last'.fires[1].length = state'.length]_vars

\* An onSlide call received the clamped index the render wrote to the DOM.
PostClamp(f) ==
  /\ f.length >= 1 => 0 <= f.index /\ f.index < f.length
  /\ IsSome(f.pct)
  /\ f.left = Some(f.index * (-100) + Val(f.pct))

\* C5, amended: onSlide is called exactly once per render: once by a click,
\* a keydown, a touch start, a touch move and a touch end that does not
\* navigate, twice by a touch end that navigates; each call receives the
\* post-clamp index and the length that its render wrote to the DOM, and
\* the last call those of the final state.
C5_OneFirePerRender ==
  [][(last'.ran /\ last'.err = "none" /\ state'.slider # 0)
     => LET fires == last'.fires
            n == IF last'.op = "touchend" /\ SwipeDirection(state) # "none"
                 THEN 2 ELSE 1
        IN  /\ Len(fires) = n
            /\ \A k \in 1..Len(fires) :
                  PostClamp(fires[k]) /\ fires[k].slider = state'.slider
            /\ fires[n].index = state'.index
            /\ fires[n].length = state'.length
            /\ fires[n].left = dom'[state'.slider].left]_vars

\* C5 witness: a touch end has navigated and called onSlide twice.
C5_Witness ==
  /\ last.op = "touchend" /\ last.err = "none"
  /\ Len(last.fires) = 2
  /\ last.fires[1].index # last.fires[2].index \/ last.fires[1].left # last.fires[2].left

\* C6: a load from an element without a container fails with 'container
\* not found', one from a container without a list with 'slider not found';
\* the failed interaction changes no left offset and no swiping class and
\* does not call onSlide.
C6_LoadFailures ==
  [][/\ ( last'.ran /\ last'.op \in {"click", "keydown", "touchstart"} )
        => LET c == Closest(last'.el)
           IN  /\ last'.err = "container" <=> c = 0
               /\ last'.err = "slider" <=> (c # 0 /\ ~dom[c].present)
     /\ last'.err \in {"container", "slider"}
        => dom' = dom /\ last'.fires = <<>>]_vars

\* C6 witness: a touch end has failed with 'slider not found' while a list
\* on the page is displaced by a swipe.
C6_Witness ==
  /\ last.op = "touchend" /\ last.err = "slider"
  /\ \E c \in Containers : dom[c].present /\ dom[c].swiping

\* C7: after every touch end, state.swiping is false, state.swipingDistance
\* is 0 and the loaded list does not carry the swiping class.
C7_TouchEndCancels ==
  last.op = "touchend"
    => /\ ~state.swiping
       /\ state.swipingDistance = 0
       /\ state.slider # 0 => ~dom[state.slider].swiping

\* C8: a render of a valid index I with zero swipe distance writes
\* left = -I*100 %, and a load from that slider's container then yields
\* index I.
C8_RoundTrip ==
  ( /\ state.slider # 0 /\ last.fires # <<>>
    /\ state.swipingDistance = 0
    /\ 0 <= state.index /\ state.index < state.length )
  => /\ dom[state.slider].left = Some(state.index * (-100))
     /\ getSlideIndex(dom[state.slider].left) = state.index
     /\ LET l == loadState(Begin, ContainerElement(state.slider))
        IN  l.err = "none" /\ l.state.index = state.index

\* C8 witness: the last slide of the longest slider has been rendered with
\* zero swipe distance.
C8_Witness ==
  /\ state.slider # 0 /\ last.fires # <<>>
  /\ state.swipingDistance = 0
  /\ state.length = MaxLen /\ state.index = MaxLen - 1

\* A handler run that did nothing.
Quiet(r) ==
  r.state = state /\ r.dom = dom /\ r.fires = <<>> /\ r.err = "none"

\* C9: in every reachable state, a click outside the prev/next controls, a
\* keydown outside any attributed slider or with another key, a touch
\* start with a touch count other than 1 or outside any attributed slider,
\* and a touch move with a touch count other than 1 or with no swipe in
\* progress leave state and DOM unchanged, call nothing and raise nothing.
C9_IgnoredInputs ==
  /\ \A el \in Elements :
        ~el.prev /\ ~el.next => Quiet(click(el))
  /\ \A el \in Elements, key \in Keys :
        el.attr = "none" \/ key \notin {"ArrowLeft", "ArrowRight"}
          => Quiet(keydown(el, key))
  /\ \A el \in Elements, n \in TouchCounts, x \in ScreenXs :
        n # 1 \/ el.attr = "none" => Quiet(touchStart(el, n, x))
  /\ \A n \in TouchCounts, x \in ScreenXs :
        n # 1 \/ ~state.swiping => Quiet(touchMove(n, x))
  /\ ~last.ran => last.err = "none" /\ last.fires = <<>>

\* C9 witness: a touch move was ignored in the middle of a swipe that has
\* displaced the list.
C9_Witness ==
  /\ last.op = "touchmove" /\ ~last.ran
  /\ state.swiping /\ state.swipingDistance # 0
  /\ state.slider # 0 /\ dom[state.slider].swiping

\* C10: a click or arrow keydown for the slider of a gesture in progress
\* (after its touch start and touch moves) that was at the valid index i at
\* touch start leaves it one step from i, whatever the swipe offset.
C10_NavigateDuringSwipe ==
  [][( /\ last'.op \in {"click", "keydown"} /\ last'.ran
       /\ clean /\ state.swiping
       /\ state.slider # 0 /\ Closest(last'.el) = state.slider
       /\ 0 <= state.index /\ state.index < state.length )
     => LET forward == IF last'.op = "click" THEN ~last'.el.prev
                       ELSE last'.key = "ArrowRight"
        IN  state'.index = Step(state.index, state.length, forward)]_vars

\* The prev or next control of container c.
Control(c, forward) ==
  [container |-> c, prev |-> ~forward, next |-> forward, attr |-> "none",
   null |-> FALSE]

\* C11: in every reachable state, an arrow keydown whose target is an
\* attributed slider element or one of its descendants does what the click
\* on the matching prev/next control of that slider does, and from rest at
\* index i it leaves the slider one step from i.
C11_ArrowKeys ==
  \A el \in Elements, key \in {"ArrowLeft", "ArrowRight"} :
    el.attr \in {"self", "desc"}
      => LET forward == key = "ArrowRight"
             k == keydown(el, key)
             c == click(Control(Closest(el), forward))
         IN  /\ k.state = c.state /\ k.dom = c.dom
             /\ k.fires = c.fires /\ k.err = c.err
             /\ \A i \in 0..MaxLen :
                   ( /\ Closest(el) # 0 /\ ~state.swiping
                     /\ AtRest(dom, Closest(el), i) )
                   => k.state.index =
                        Step(i, dom[Closest(el)].childElementCount, forward)

\* The state and DOM s, d follow the finger from the state before the
\* move: the index is unchanged, and the loaded list carries the swiping
\* class and has left = -100*index + swipingDistance * 100 / width %.
FollowsFinger(s, d) ==
  /\ s.index = state.index
  /\ s.slider = state.slider
  /\ s.start = state.start
  /\ d[s.slider].swiping
  /\ d[s.slider].left =
       Some((-100) * s.index + (s.swipingDistance * 100) \div Val(s.width))

C13_NoSliderNoRender ==
  [][(last'.op \in {"touchend", "touchmove"} /\ state.slider = 0)
     => /\ dom' = dom
        /\ last'.fires = <<>>
        /\ state'.slider = 0]_vars

\* C13 witness: a touch move ran its render with no slider loaded (a load
\* failed with 'slider not found' during the swipe) while a list on the
\* page is displaced.
C13_Witness ==
  /\ last.op = "touchmove" /\ last.ran
  /\ state.slider = 0 /\ state.swiping
  /\ \E c \in Containers : dom[c].present /\ dom[c].swiping

\* C14: in every reachable state, state.swiping = false implies
\* state.swipingDistance = 0, and a render made while not swiping applied
\* no swipe offset.
C14_NoOffsetAtRest ==
  ~state.swiping
    => /\ state.swipingDistance = 0
       /\ (state.slider # 0 /\ last.fires # <<>>)
            => /\ last.fires[Len(last.fires)].pct = Some(0)
               /\ dom[state.slider].left = Some((-100) * state.index)

\* C14 witness: a touch end has closed a gesture with a non-zero swipe and
\* left the state not swiping.
C14_Witness ==
  /\ last.op = "touchend" /\ last.err = "none"
  /\ IsSome(last.swipe) /\ Val(last.swipe) # 0
  /\ ~state.swiping /\ state.slider # 0

\* The page has two sliders, each with at least one slide.
TwoSliders ==
  \A c \in Containers : dom[c].present /\ dom[c].childElementCount >= 1

\* The list of container c is at a rest position: its left is a multiple
\* of 100% within [-(length-1)*100, 0] and it has no swiping class.
Resting(d, c) ==
  /\ ~d[c].swiping
  /\ \E i \in 0..(d[c].childElementCount - 1) : AtRest(d, c, i)

\* C15: on a page of two sliders, whenever no swipe is in progress after a
\* handler has finished, every list is at a rest position and none carries
\* the swiping class.
C15_RestPositions ==
  (TwoSliders /\ ~state.swiping /\ last.err = "none")
    => \A c \in Containers : Resting(dom, c)

\* C16: on a page of two sliders, the touch moves and the touch end of a
\* gesture that started on slider A change only A's list, never the other
\* list, and a click or keydown that targets the other slider B during the
\* gesture renders B without A's swipe offset and without the swiping class.
C16_SliderIsolation ==
  [][(TwoSliders /\ origin # 0)
     => /\ last'.op \in {"touchmove", "touchend"}
           => \A b \in Containers \ {origin} : dom'[b] = dom[b]
        /\ ( /\ last'.op \in {"click", "keydown"} /\ last'.ran
             /\ Closest(last'.el) \in Containers \ {origin} )
           => LET b == Closest(last'.el)
              IN  /\ ~dom'[b].swiping
                  /\ dom'[b].left = Some((-100) * state'.index)
                  /\ dom'[origin] = dom[origin]]_vars

\* C17: in every reachable state, a non-null state.slider comes with a
\* non-null state.sliderContainer whose list it is, and no touch end
\* dereferences a null container.
C17_StatePair ==
  /\ state.slider # 0
       => /\ state.sliderContainer # 0
          /\ state.slider = QuerySlider(dom, state.sliderContainer)
  /\ last.err # "TypeError"

====
